---- MODULE Spec2Model ----
(***************************************************************************)
(* Model of the localization pipeline (.github/scripts/translate.py) and   *)
(* of the consistency validator (.github/ci.py, ci.py).                    *)
(*                                                                         *)
(* A Python dict is a sequence of <<key, value>> pairs with distinct keys, *)
(* in insertion order.  A file on disk is a record [state, data]: state is *)
(* "absent", "complete" (a whole JSON document) or "partial" (opened for   *)
(* writing and truncated, the document not yet fully written).             *)
(***************************************************************************)
EXTENDS Integers, Sequences, FiniteSets, TLC

\* ------------------------------------------------------------------ bounds

\* BATCH_SIZE is 50 in the source; the model lets it range over 1..MaxBatchSize
\* so that several batches are formed out of a handful of keys.
MaxBatchSize == 2

\* --------------------------------------------------------------- constants

SOURCE_LANGUAGE == "en_US"

SKIP_LANGUAGES == {"tok"}

\* ----------------------------------------------------------- input universe

KeyOrder == <<"a", "b", "c">>

KeyUniverse == {"a", "b", "c"}

ResponseKeys == KeyUniverse

LocaleCodes == {"fr", "de", "tok"}

CanonicalSets ==
    { << <<"b", "World">>, <<"a", "Hello">>, <<"c", "Music">> >>,
      << <<"a", "Hello">>, <<"b", "World">> >> }

AbsentFile == [state |-> "absent", data |-> << >>]

CompleteFile(d) == [state |-> "complete", data |-> d]

PartialFile == [state |-> "partial", data |-> << >>]

LocaleContents ==
    { AbsentFile,
      CompleteFile(<< >>),
      CompleteFile(<< <<"a", "old">> >>),
      CompleteFile(<< <<"z", "old">>, <<"a", "old">>, <<"b", "old">>, <<"c", "old">> >>) }

\* The locale files a run starts from: fr.json in any of the contents above,
\* tok.json present and incomplete, de.json not yet created.
InitialFiles ==
    { f \in [LocaleCodes -> LocaleContents] :
        /\ f["tok"] = CompleteFile(<< <<"a", "old">> >>)
        /\ f["de"] = AbsentFile }

Manifests ==
    { << [code |-> "en_US", name |-> "English"], [code |-> "fr", name |-> "French"],
         [code |-> "tok", name |-> "Toki Pona"], [code |-> "de", name |-> "German"] >>,
      << [code |-> "fr", name |-> "French"], [code |-> "de", name |-> ""] >> }

GitStates == {"no_prior", "identical", "changed", "query_failed"}

\* ------------------------------------------------------------------- dicts

RECURSIVE IndexOfKey(_, _, _)
IndexOfKey(d, k, i) ==
    IF i > Len(d) THEN 0
    ELSE IF d[i][1] = k THEN i
    ELSE IndexOfKey(d, k, i + 1)

DictHas(d, k) == IndexOfKey(d, k, 1) # 0

DictGet(d, k, default) ==
    IF DictHas(d, k) THEN d[IndexOfKey(d, k, 1)][2] ELSE default

DictKeys(d) == [i \in 1..Len(d) |-> d[i][1]]

DictKeySet(d) == {d[i][1] : i \in 1..Len(d)}

DictSet(d, k, v) ==
    IF DictHas(d, k)
    THEN [d EXCEPT ![IndexOfKey(d, k, 1)] = <<k, v>>]
    ELSE Append(d, <<k, v>>)

RECURSIVE DictUpdate(_, _)
DictUpdate(d, e) ==
    IF e = << >> THEN d
    ELSE DictUpdate(DictSet(d, Head(e)[1], Head(e)[2]), Tail(e))

SeqToSet(s) == {s[i] : i \in 1..Len(s)}

DistinctSeqs(S) ==
    { s \in UNION {[1..n -> S] : n \in 0..Cardinality(S)} :
        \A i, j \in 1..Len(s) : i # j => s[i] # s[j] }

Min(x, y) == IF x < y THEN x ELSE y

\* --------------------------------------------------------------- provider

\* Optional[str]: the content call_groq returns.  A content string is
\* abstracted to its optional markdown fence and its payload: "object" (the
\* text of a JSON object, obj), "array" (valid JSON, not an object) or
\* "garbage" (not JSON).  Fence "json" is ```json, "plain" is ```, "other" is
\* any other opening line that starts with ```.
None == [some |-> FALSE, fence |-> "none", payload |-> "garbage", obj |-> << >>]

Content(fence, payload, obj) ==
    [some |-> TRUE, fence |-> fence, payload |-> payload, obj |-> obj]

ObjOfKeys(S) ==
    LET InS(k) == k \in S
        ks == SelectSeq(KeyOrder, InS)
    IN  [i \in 1..Len(ks) |-> <<ks[i], "new">>]

ResponseObjects == {ObjOfKeys(S) : S \in SUBSET ResponseKeys}

Contents ==
    {Content(f, "object", o) : f \in {"none", "json", "plain", "other"}, o \in ResponseObjects}
        \cup {Content("none", p, << >>) : p \in {"array", "garbage"}}

\* What the HTTP exchange does: curl's outcome and the body it prints.
ProviderOutcomes ==
    {[kind |-> k, content |-> None] :
        k \in {"curl_error", "timeout", "empty_body", "bad_json", "no_choices", "empty_content"}}
        \cup {[kind |-> "content", content |-> c] : c \in Contents}

call_groq(key_set, outcome) ==
    IF ~key_set THEN None
    ELSE IF outcome.kind = "content" THEN outcome.content
    ELSE None

strip_markdown_code_block(content) ==
    IF content.fence \in {"json", "plain"}
    THEN [content EXCEPT !.fence = "none"]
    ELSE content

\* json.loads: [result, obj], result "dict", "nondict" or "error" (JSONDecodeError).
json_loads(content) ==
    IF content.fence # "none" \/ content.payload = "garbage"
    THEN [result |-> "error", obj |-> << >>]
    ELSE IF content.payload = "object"
    THEN [result |-> "dict", obj |-> content.obj]
    ELSE [result |-> "nondict", obj |-> << >>]

RECURSIVE FillMissing(_, _)
FillMissing(translated, keys_dict) ==
    IF keys_dict = << >> THEN translated
    ELSE LET k == Head(keys_dict)[1]
             filled == IF DictHas(translated, k) THEN translated
                       ELSE DictSet(translated, k, Head(keys_dict)[2])
         IN  FillMissing(filled, Tail(keys_dict))

\* Faulty variant of translate_keys: a failed batch yields an empty dict instead of
\* the batch's source values.
translate_keys_empty_on_failure(keys_dict, key_set, outcome) ==
    IF keys_dict = << >> THEN << >>
    ELSE LET response == call_groq(key_set, outcome)
         IN  IF ~response.some THEN << >>
             ELSE LET parsed == json_loads(strip_markdown_code_block(response))
                  IN  IF parsed.result # "dict" THEN << >>
                      ELSE FillMissing(parsed.obj, keys_dict)

translate_keys(keys_dict, key_set, outcome) ==
    IF keys_dict = << >> THEN << >>
    ELSE LET response == call_groq(key_set, outcome)
         IN  IF ~response.some THEN keys_dict
             ELSE LET parsed == json_loads(strip_markdown_code_block(response))
                  IN  IF parsed.result # "dict" THEN keys_dict
                      ELSE FillMissing(parsed.obj, keys_dict)

\* True when translate_keys falls back to the batch's source values as a whole.
BatchFailed(key_set, outcome) ==
    LET response == call_groq(key_set, outcome)
    IN  \/ ~response.some
        \/ json_loads(strip_markdown_code_block(response)).result # "dict"

\* ------------------------------------------------------------------- merge

\* Faulty variant of BatchKeys: the slice ends one key early (keys[i:i + size - 1]).
BatchKeysShort(keys, from, size) == SubSeq(keys, from + 1, Min(from + size - 1, Len(keys)))

BatchKeys(keys, from, size) == SubSeq(keys, from + 1, Min(from + size, Len(keys)))

BatchDict(keys, src) == [j \in 1..Len(keys) |-> <<keys[j], DictGet(src, keys[j], "")>>]

FinalData(existing, translated) == DictUpdate(existing, translated)

\* Faulty variant of OrderedData: the overlay is saved as it is, not re-keyed.
OrderedDataNotRekeyed(final_data, en) == final_data

OrderedData(final_data, en) ==
    [j \in 1..Len(en) |-> <<en[j][1], DictGet(final_data, en[j][1], en[j][2])>>]

KeysToTranslate(changed, en) ==
    LET InEn(k) == DictHas(en, k)
        ks == SelectSeq(changed, InEn)
    IN  BatchDict(ks, en)

\* ------------------------------------------------------------------- state

VARIABLES
    en_data,            \* the canonical dict loaded from en_US.json
    index,              \* index.json: the list of language records
    files,              \* localizations/<code>.json, per locale code
    preFiles,           \* files as they were when the run started
    api_key,            \* whether GROQ_API_KEY is set and non-empty
    BATCH_SIZE,         \* the batch capacity
    gitState,           \* what `git diff HEAD~1 HEAD` meets
    pc,                 \* position of main()
    exitStatus,         \* "running", "ok" (0), "fail" (1) or "killed"
    changed_keys,       \* get_changed_keys' set, in its iteration order
    langIdx,            \* position of main's loop over index
    translated_count,
    existing_data, keys_to_translate, translated, i, ordered_data,
    batches,            \* the batch_keys formed by the current translate_language
    calls,              \* call_groq invocations of the current translate_language
    everCalled,         \* call_groq was invoked during this run
    allFailed,          \* every batch so far fell back to its source values
    repaired,           \* requested keys a valid response object lacked
    provided,           \* requested keys a valid response object carried
    written,            \* locale codes whose file was opened for writing
    ciPc, ciTodo, ciIdx, success, diagnostics, ciExit

pipeVars ==
    <<en_data, index, files, preFiles, api_key, BATCH_SIZE, gitState, pc, exitStatus,
      changed_keys, langIdx, translated_count, existing_data, keys_to_translate,
      translated, i, ordered_data, batches, calls, everCalled, allFailed, repaired,
      provided, written>>

callVars ==
    <<existing_data, keys_to_translate, translated, i, ordered_data, batches, calls,
      allFailed, repaired, provided>>

envVars == <<en_data, index, preFiles, api_key, BATCH_SIZE, gitState>>

ciVars == <<ciPc, ciTodo, ciIdx, success, diagnostics, ciExit>>

vars == <<pipeVars, ciVars>>

CiIdle ==
    /\ ciPc = "idle"
    /\ ciTodo = {}
    /\ ciIdx = 0
    /\ success = TRUE
    /\ diagnostics = {}
    /\ ciExit = "running"

\* The locals of translate_language (and their history) before a call and
\* after it has returned.
NoCall ==
    /\ existing_data = << >>
    /\ keys_to_translate = << >>
    /\ translated = << >>
    /\ i = 0
    /\ ordered_data = << >>
    /\ batches = << >>
    /\ calls = 0
    /\ allFailed = TRUE
    /\ repaired = {}
    /\ provided = {}

Return ==
    /\ existing_data' = << >>
    /\ keys_to_translate' = << >>
    /\ translated' = << >>
    /\ i' = 0
    /\ ordered_data' = << >>
    /\ batches' = << >>
    /\ calls' = 0
    /\ allFailed' = TRUE
    /\ repaired' = {}
    /\ provided' = {}

PipeIdle(p) ==
    /\ pc = p
    /\ exitStatus = "running"
    /\ changed_keys = << >>
    /\ langIdx = 0
    /\ translated_count = 0
    /\ NoCall
    /\ everCalled = FALSE
    /\ written = {}

Init ==
    /\ en_data \in CanonicalSets
    /\ index \in Manifests
    /\ files \in InitialFiles
    /\ preFiles = files
    /\ api_key \in BOOLEAN
    /\ BATCH_SIZE \in 1..MaxBatchSize
    /\ gitState \in GitStates
    /\ PipeIdle("start")
    /\ CiIdle

\* ---------------------------------------------------------------- pipeline

Exit(status) ==
    /\ pc' = "done"
    /\ exitStatus' = status

\* `git diff HEAD~1 HEAD -- en_US.json`: the return code and whether stdout is
\* blank.  HEAD~1 does not resolve without a prior revision (git: "bad
\* revision", return code 128); "query_failed" is any other failure of the
\* query, a raised exception included.
GitDiff(state) ==
    CASE state = "no_prior" -> [returncode |-> 128, blank |-> TRUE]
      [] state = "query_failed" -> [returncode |-> 1, blank |-> TRUE]
      [] state = "identical" -> [returncode |-> 0, blank |-> TRUE]
      [] OTHER -> [returncode |-> 0, blank |-> FALSE]

\* main, lines 318-324: get_changed_keys and the exit on an empty set.
GetChangedKeys ==
    /\ pc = "start"
    /\ LET result == GitDiff(gitState)
       IN  IF result.returncode # 0
           THEN Exit("fail") /\ UNCHANGED <<changed_keys, langIdx>>
           ELSE IF result.blank
           THEN Exit("ok") /\ UNCHANGED <<changed_keys, langIdx>>
           ELSE \E ck \in DistinctSeqs(KeyUniverse) :
                    IF ck = << >>
                    THEN Exit("ok") /\ UNCHANGED <<changed_keys, langIdx>>
                    ELSE /\ changed_keys' = ck
                         /\ langIdx' = 1
                         /\ pc' = "loop"
                         /\ UNCHANGED exitStatus
    /\ UNCHANGED <<envVars, files, translated_count, callVars, everCalled, written, ciVars>>

\* Faulty variant of Skipped: the skip list is not consulted.
SkippedWithoutSkipList(lang_info) ==
    \/ lang_info.code = "" \/ lang_info.name = ""
    \/ lang_info.code = SOURCE_LANGUAGE

Skipped(lang_info) ==
    \/ lang_info.code = "" \/ lang_info.name = ""
    \/ lang_info.code = SOURCE_LANGUAGE
    \/ lang_info.code \in SKIP_LANGUAGES

\* main, lines 340-355: an entry the loop passes over.
SkipLanguage ==
    /\ pc = "loop"
    /\ langIdx <= Len(index)
    /\ Skipped(index[langIdx])
    /\ langIdx' = langIdx + 1
    /\ UNCHANGED <<envVars, files, pc, exitStatus, changed_keys, translated_count,
                   callVars, everCalled, written, ciVars>>

LoadExisting(file) == IF file.state = "absent" THEN << >> ELSE file.data

\* main, lines 357-367, and translate_language up to its loop (lines 257-266).
LoadLanguage ==
    /\ pc = "loop"
    /\ langIdx <= Len(index)
    /\ ~Skipped(index[langIdx])
    /\ LET existing == LoadExisting(files[index[langIdx].code])
           pending == KeysToTranslate(changed_keys, en_data)
       IN  IF pending = << >>
           THEN /\ Return
                /\ langIdx' = langIdx + 1
                /\ pc' = "loop"
           ELSE /\ existing_data' = existing
                /\ keys_to_translate' = pending
                /\ translated' = << >>
                /\ i' = 0
                /\ ordered_data' = << >>
                /\ batches' = << >>
                /\ calls' = 0
                /\ allFailed' = TRUE
                /\ repaired' = {}
                /\ provided' = {}
                /\ langIdx' = langIdx
                /\ pc' = "batch"
    /\ UNCHANGED <<envVars, files, exitStatus, changed_keys, translated_count,
                   everCalled, written, ciVars>>

\* translate_language, lines 268-276: one iteration of the batch loop.
TranslateBatch ==
    /\ pc = "batch"
    /\ i < Len(keys_to_translate)
    /\ \E outcome \in ProviderOutcomes :
         LET keys == DictKeys(keys_to_translate)
             batch_keys == BatchKeys(keys, i, BATCH_SIZE)
             batch_dict == BatchDict(batch_keys, keys_to_translate)
             batch_translated == translate_keys(batch_dict, api_key, outcome)
             failed == BatchFailed(api_key, outcome)
             answered == IF failed THEN {}
                         ELSE DictKeySet(call_groq(api_key, outcome).obj)
         IN  /\ translated' = DictUpdate(translated, batch_translated)
             /\ batches' = Append(batches, batch_keys)
             /\ allFailed' = (allFailed /\ failed)
             /\ repaired' = IF failed THEN repaired
                            ELSE repaired \cup (SeqToSet(batch_keys) \ answered)
             /\ provided' = IF failed THEN provided
                            ELSE provided \cup (SeqToSet(batch_keys) \cap answered)
    /\ calls' = calls + 1
    /\ everCalled' = TRUE
    /\ i' = i + BATCH_SIZE
    /\ UNCHANGED <<envVars, files, pc, exitStatus, changed_keys, langIdx,
                   translated_count, existing_data, keys_to_translate, ordered_data,
                   written, ciVars>>

\* translate_language, lines 278-283: the merge, once the batch loop has ended.
MergeTranslations ==
    /\ pc = "batch"
    /\ i >= Len(keys_to_translate)
    /\ ordered_data' = OrderedData(FinalData(existing_data, translated), en_data)
    /\ pc' = "save"
    /\ UNCHANGED <<envVars, files, exitStatus, changed_keys, langIdx, translated_count,
                   existing_data, keys_to_translate, translated, i, batches, calls,
                   everCalled, allFailed, repaired, provided, written, ciVars>>

\* save_json, lines 32-33: open(file_path, 'w') creates or truncates the file.
SaveOpen ==
    /\ pc = "save"
    /\ files' = [files EXCEPT ![index[langIdx].code] = PartialFile]
    /\ written' = written \cup {index[langIdx].code}
    /\ pc' = "write"
    /\ UNCHANGED <<envVars, exitStatus, changed_keys, langIdx, translated_count,
                   callVars, everCalled, ciVars>>

\* save_json, lines 34-35, then translate_language returns True (main, 367-368).
SaveWrite ==
    /\ pc = "write"
    /\ files' = [files EXCEPT ![index[langIdx].code] = CompleteFile(ordered_data)]
    /\ translated_count' = translated_count + 1
    /\ langIdx' = langIdx + 1
    /\ pc' = "loop"
    /\ Return
    /\ UNCHANGED <<envVars, exitStatus, changed_keys, everCalled, written, ciVars>>

\* main, line 370: the loop is over and the script ends with status 0.
Finish ==
    /\ pc = "loop"
    /\ langIdx > Len(index)
    /\ Exit("ok")
    /\ UNCHANGED <<envVars, files, changed_keys, langIdx, translated_count, callVars,
                   everCalled, written, ciVars>>

\* The process is interrupted or killed wherever it stands: what it held in
\* memory is gone, the files stay as they are.
Crash ==
    /\ pc \notin {"done", "crashed"}
    /\ pc' = "crashed"
    /\ exitStatus' = "killed"
    /\ changed_keys' = << >>
    /\ langIdx' = 0
    /\ translated_count' = 0
    /\ Return
    /\ UNCHANGED <<envVars, files, everCalled, written, ciVars>>

Next ==
    \/ GetChangedKeys
    \/ SkipLanguage
    \/ LoadLanguage
    \/ TranslateBatch
    \/ MergeTranslations
    \/ SaveOpen
    \/ SaveWrite
    \/ Finish
    \/ Crash

Spec == Init /\ [][Next]_vars

\* --------------------------------------------------------------- validator

\* os.listdir(localizations_dir): en_US.json and the locale files on disk.
ListDir == {SOURCE_LANGUAGE} \cup {c \in LocaleCodes : files[c].state # "absent"}

FileContents(f) == IF f = SOURCE_LANGUAGE THEN en_data ELSE files[f].data

Diagnostic(check, file, key) == [check |-> check, file |-> file, key |-> key]

\* ci.py, lines 20-23: the keys of en_US.json a file lacks.
\* Faulty variant of MissingKeys: the key loop breaks at the first missing key.
MissingKeysFirstOnly(contents) ==
    LET missing == {k \in DictKeySet(en_data) : ~DictHas(contents, k)}
    IN  IF missing = {} THEN {} ELSE {CHOOSE k \in missing : TRUE}

MissingKeys(contents) == {k \in DictKeySet(en_data) : ~DictHas(contents, k)}

InitCI ==
    /\ en_data \in CanonicalSets
    /\ index \in Manifests
    /\ files \in [LocaleCodes -> LocaleContents]
    /\ preFiles = files
    /\ api_key = TRUE
    /\ BATCH_SIZE = 1
    /\ gitState = "identical"
    /\ PipeIdle("idle")
    /\ ciPc = "start"
    /\ ciTodo = {}
    /\ ciIdx = 0
    /\ success = TRUE
    /\ diagnostics = {}
    /\ ciExit = "running"

\* ci.py, lines 7-14: the keys of en_US.json are read.
CiStart ==
    /\ ciPc = "start"
    /\ ciPc' = "completeness"
    /\ ciTodo' = ListDir
    /\ UNCHANGED <<pipeVars, ciIdx, success, diagnostics, ciExit>>

\* ci.py, lines 16-23: one file of the completeness loop.
CiCheckFile ==
    /\ ciPc = "completeness"
    /\ \E f \in ciTodo :
         LET missing == MissingKeys(FileContents(f))
         IN  /\ diagnostics' = diagnostics \cup {Diagnostic("key not found", f, k) : k \in missing}
             /\ success' = (success /\ missing = {})
             /\ ciTodo' = ciTodo \ {f}
    /\ UNCHANGED <<pipeVars, ciPc, ciIdx, ciExit>>

\* ci.py, lines 24-27: index.json is read once the completeness loop has ended.
CiOpenIndex ==
    /\ ciPc = "completeness"
    /\ ciTodo = {}
    /\ ciPc' = "manifest"
    /\ ciIdx' = 1
    /\ UNCHANGED <<pipeVars, ciTodo, success, diagnostics, ciExit>>

\* ci.py, lines 28-31: one record of index.json against the files on disk.
CiCheckEntry ==
    /\ ciPc = "manifest"
    /\ ciIdx <= Len(index)
    /\ LET code == index[ciIdx].code
           found == code \in ListDir
       IN  /\ diagnostics' = IF found THEN diagnostics
                             ELSE diagnostics \cup {Diagnostic("file not found", code, "")}
           /\ success' = (success /\ found)
    /\ ciIdx' = ciIdx + 1
    /\ UNCHANGED <<pipeVars, ciPc, ciTodo, ciExit>>

\* ci.py, lines 32-34: the codes of index.json, and the directory listed again.
CiListFiles ==
    /\ ciPc = "manifest"
    /\ ciIdx > Len(index)
    /\ ciPc' = "files"
    /\ ciTodo' = ListDir
    /\ UNCHANGED <<pipeVars, ciIdx, success, diagnostics, ciExit>>

\* ci.py, lines 34-38: one file against the codes of index.json.
CiCheckListed ==
    /\ ciPc = "files"
    /\ \E f \in ciTodo :
         LET listed == \E j \in 1..Len(index) : index[j].code = f
         IN  /\ diagnostics' = IF listed THEN diagnostics
                               ELSE diagnostics \cup {Diagnostic("not in index", f, "")}
             /\ success' = (success /\ listed)
             /\ ciTodo' = ciTodo \ {f}
    /\ UNCHANGED <<pipeVars, ciPc, ciIdx, ciExit>>

\* ci.py, lines 39-41: the exit code.
CiExit ==
    /\ ciPc = "files"
    /\ ciTodo = {}
    /\ ciPc' = "done"
    /\ ciExit' = IF success THEN "ok" ELSE "fail"
    /\ UNCHANGED <<pipeVars, ciTodo, ciIdx, success, diagnostics>>

NextCI ==
    \/ CiStart
    \/ CiCheckFile
    \/ CiOpenIndex
    \/ CiCheckEntry
    \/ CiListFiles
    \/ CiCheckListed
    \/ CiExit

SpecCI == InitCI /\ [][NextCI]_vars

\* ------------------------------------------------------------------ claims

Merged == pc \in {"save", "write"}

Pending == DictKeySet(keys_to_translate)

CanonicalKeys == DictKeySet(en_data)

Source(k) == DictGet(en_data, k, "")

\* What a key holds when this run does not translate it.
Kept(k) == IF DictHas(existing_data, k) THEN DictGet(existing_data, k, "") ELSE Source(k)

\* C1: the key sequence of the merged mapping, and of every file the run has
\* written in full, is the canonical key sequence, in membership and order.
C1_OrderInvariant ==
    /\ Merged => DictKeys(ordered_data) = DictKeys(en_data)
    /\ \A c \in written :
         files[c].state = "complete" => DictKeys(files[c].data) = DictKeys(en_data)

\* C1 witness: a merge whose existing data and whose translated mapping both
\* carry a key absent from canonical, the existing keys in another order.
C1_Witness ==
    /\ Merged
    /\ DictHas(existing_data, "z")
    /\ \E k \in DictKeySet(translated) : k \notin CanonicalKeys
    /\ DictKeys(ordered_data) = DictKeys(en_data)

TranslatableLocale(c) ==
    \E j \in 1..Len(index) :
        /\ index[j].code = c
        /\ index[j].name # ""
        /\ c # "en_US"
        /\ c # "tok"

RunHasPendingKeys == \E j \in 1..Len(changed_keys) : changed_keys[j] \in CanonicalKeys

\* C2 as stated: after a run that ends successfully every locale file on disk
\* has exactly the canonical key sequence.
C2_Original ==
    (pc = "done" /\ exitStatus = "ok") =>
        \A c \in LocaleCodes :
            files[c].state # "absent" =>
                files[c].state = "complete" /\ DictKeys(files[c].data) = DictKeys(en_data)

\* C2 amended: after a run that ends successfully, the file of every locale
\* the run translates (a manifest record with a code and a name, not the
\* source language, not on the skip list, the run having a changed key that
\* canonical holds) has exactly the canonical key sequence; every other
\* locale file is as it was before the run.
C2_Amended ==
    (pc = "done" /\ exitStatus = "ok") =>
        \A c \in LocaleCodes :
            IF TranslatableLocale(c) /\ RunHasPendingKeys
            THEN files[c].state = "complete" /\ DictKeys(files[c].data) = DictKeys(en_data)
            ELSE files[c] = preFiles[c]

\* C2 witness: a successful run that created a locale file, rewrote another
\* and left the skip-listed locale's incomplete file alone.
C2_Witness ==
    /\ pc = "done" /\ exitStatus = "ok"
    /\ written = {"fr", "de"}
    /\ preFiles["fr"].state = "absent"
    /\ files["tok"] = preFiles["tok"]
    /\ DictKeys(files["tok"].data) # DictKeys(en_data)

\* C3 as stated: when every provider call fails, the merged output is the
\* canonical entry set itself.
C3_Original == (Merged /\ allFailed) => ordered_data = en_data

\* C3 amended: when every provider call fails, the merged output has the
\* canonical key sequence, every pending key maps to its source value, and
\* every other key maps to the locale's existing value when it had one and to
\* its source value otherwise.
C3_Amended ==
    (Merged /\ allFailed) =>
        /\ DictKeys(ordered_data) = DictKeys(en_data)
        /\ \A k \in CanonicalKeys :
             DictGet(ordered_data, k, "") = IF k \in Pending THEN Source(k) ELSE Kept(k)

\* C3 witness: two failed provider calls for a locale that already translates
\* a pending key and a key that is not pending.
C3_Witness ==
    /\ Merged /\ allFailed /\ api_key
    /\ calls >= 2
    /\ \E k \in Pending : DictHas(existing_data, k)
    /\ \E k \in CanonicalKeys \ Pending : DictHas(existing_data, k)

\* C4: a requested key that a valid response object lacks holds its source
\* value in the merged result, and a requested key the response carries holds
\* the provider's value.
C4_PartialRepair ==
    Merged =>
        /\ \A k \in repaired : DictGet(ordered_data, k, "") = Source(k)
        /\ \A k \in provided : DictGet(ordered_data, k, "") = "new"

\* C5: a canonical key that is not pending holds the locale's existing value
\* when it had one and its source value otherwise, whatever the provider sent.
C5_RestrictedToPending ==
    Merged => \A k \in CanonicalKeys \ Pending : DictGet(ordered_data, k, "") = Kept(k)

\* C6: after an interruption every locale file holds its content from before
\* the run or a complete document the run wrote; none is left partly written.
C6_CrashConsistency ==
    pc = "crashed" =>
        \A c \in LocaleCodes :
            \/ files[c] = preFiles[c]
            \/ c \in written /\ files[c].state = "complete"

\* C7: with the API key missing, no locale file is written and a run that
\* reached the provider call does not end with a success status.
C7_MissingKeyFatal ==
    (~api_key /\ everCalled) =>
        /\ written = {}
        /\ pc = "done" => exitStatus = "fail"

\* C8: with no prior revision, or with two identical revisions, the ChangeSet
\* is empty, no locale file is written and the run ends with success.
C8_NoChangeIsSuccess ==
    (pc = "done" /\ gitState \in {"no_prior", "identical"}) =>
        /\ changed_keys = << >>
        /\ written = {}
        /\ exitStatus = "ok"

BatchLoopEnded == (pc = "batch" /\ i >= Len(keys_to_translate)) \/ Merged

\* C10: once the batch loop has ended, ceil(N/B) batches were formed with one
\* call_groq invocation each, every batch holds between 1 and B keys, no key
\* is in two batches or twice in one, and the batches cover the pending keys.
C10_BatchPartition ==
    BatchLoopEnded =>
        LET N == Len(keys_to_translate)
            n == Len(batches)
        IN  /\ n * BATCH_SIZE >= N
            /\ (n - 1) * BATCH_SIZE < N
            /\ calls = n
            /\ \A j \in 1..n :
                 /\ Len(batches[j]) >= 1
                 /\ Len(batches[j]) <= BATCH_SIZE
                 /\ Cardinality(SeqToSet(batches[j])) = Len(batches[j])
            /\ \A j, l \in 1..n :
                 j # l => SeqToSet(batches[j]) \cap SeqToSet(batches[l]) = {}
            /\ UNION {SeqToSet(batches[j]) : j \in 1..n} = Pending

\* C10 witness: three pending keys in batches of two: a full batch and a rest.
C10_Witness ==
    /\ BatchLoopEnded
    /\ Len(keys_to_translate) = 3
    /\ BATCH_SIZE = 2
    /\ Len(batches) = 2
    /\ calls = 2

OnDisk == {c \in LocaleCodes : files[c].state # "absent"}

IndexCodes == {index[j].code : j \in 1..Len(index)}

ExpectedDiagnostics ==
    UNION {{Diagnostic("key not found", c, k) :
               k \in {x \in CanonicalKeys : x \notin DictKeySet(files[c].data)}} : c \in OnDisk}
        \cup {Diagnostic("file not found", c, "") : c \in IndexCodes \ (OnDisk \cup {"en_US"})}
        \cup {Diagnostic("not in index", f, "") : f \in (OnDisk \cup {"en_US"}) \ IndexCodes}

\* C9: when the validator ends it has reported every diagnostic of the three
\* checks and nothing else, it has written no file, and its status is a
\* failure exactly when it reported a diagnostic.
C9_CompleteAudit ==
    ciPc = "done" =>
        /\ diagnostics = ExpectedDiagnostics
        /\ (ciExit = "fail") = (diagnostics # {})
        /\ (ciExit = "ok") = (diagnostics = {})
        /\ files = preFiles

\* C9 witness: a run of the validator that ends in failure with findings of
\* all three checks, two of them missing keys of one file.
C9_Witness ==
    /\ ciPc = "done"
    /\ ciExit = "fail"
    /\ \E d \in diagnostics : d.check = "file not found"
    /\ \E d \in diagnostics : d.check = "not in index"
    /\ \E d, e \in diagnostics :
         d.check = "key not found" /\ e.check = "key not found" /\ d.file = e.file /\ d.key # e.key

====
